---- MODULE Spec2Model ----
(***************************************************************************)
(* Model of the table engine of src/src/db.py (Table, Database).           *)
(*                                                                         *)
(* A Python dict is a sequence of <<key, value>> pairs with distinct keys  *)
(* (insertion order is kept, as in Python and in JSON objects); a Python   *)
(* value is an int, a str or None; the index of a Table is a function from *)
(* stringified keys to 0-based positions; data/<name>.json is a JSON       *)
(* document.  One process owns one Database; Restart ends the process and  *)
(* starts a new one over the same data/ directory.                         *)
(*                                                                         *)
(* Spec      the engine called directly, every save succeeding             *)
(* SpecFault the engine when a save may raise                              *)
(* SpecView  the engine and a caller that keeps what select() returned     *)
(* SpecRepl  the command loop of src/src/repl.py over a script of lines    *)
(* SpecWeb   two requests of src/app.py inserting into the shared Table    *)
(***************************************************************************)
EXTENDS Integers, Sequences, FiniteSets, TLC

VARIABLES
    tables,     \* Database.tables: name -> Table, domain = the registered names
    files,      \* data/<name>.json: name -> JSON document, domain = existing files
    fresh,      \* names whose Table was constructed while no file existed
    res,        \* the last call: operation, arguments, error raised, value returned
    repl,       \* the command loop: its input lines, how many it has read, its state
    thr         \* the request threads inside Table.insert: position and locals

vars == <<tables, files, fresh, res, repl, thr>>

----------------------------------------------------------------------------
(* Bounds *)

MaxRows == 2

\* Lines of a script of arbitrary commands
MaxScript == 2

\* Concurrent /add requests
MaxWorkers == 2

Names == {"t"}

----------------------------------------------------------------------------
(* Python values and str() *)

None == [t |-> "none", n |-> 0, s |-> ""]
PyInt(i) == [t |-> "int", n |-> i, s |-> ""]
PyStr(x) == [t |-> "str", n |-> 0, s |-> x]

Digits == <<"1", "2", "3", "4", "5", "6", "7", "8", "9">>

Str(v) ==
    CASE v.t = "int" -> Digits[v.n]
      [] v.t = "str" -> v.s
      [] v.t = "none" -> "None"

----------------------------------------------------------------------------
(* Python dicts *)

DictKeys(d) == {d[i][1] : i \in DOMAIN d}

DictHas(d, k) == \E i \in DOMAIN d : d[i][1] = k

DictItem(d, k) == d[CHOOSE i \in DOMAIN d : d[i][1] = k][2]

DictGet(d, k) == IF DictHas(d, k) THEN DictItem(d, k) ELSE None

----------------------------------------------------------------------------
(* json.dump / json.load *)

\* Mutant: every value is written as a JSON string.
JsonDumpValue_stringified(v) == [j |-> "string", n |-> 0, s |-> Str(v)]

JsonDumpValue(v) ==
    CASE v.t = "int" -> [j |-> "number", n |-> v.n, s |-> ""]
      [] v.t = "str" -> [j |-> "string", n |-> 0, s |-> v.s]
      [] v.t = "none" -> [j |-> "null", n |-> 0, s |-> ""]

JsonLoadValue(x) ==
    CASE x.j = "number" -> PyInt(x.n)
      [] x.j = "string" -> PyStr(x.s)
      [] x.j = "null" -> None

JsonDumpDict(d) == [i \in DOMAIN d |-> <<d[i][1], JsonDumpValue(d[i][2])>>]

JsonLoadDict(o) == [i \in DOMAIN o |-> <<o[i][1], JsonLoadValue(o[i][2])>>]

\* What is left of a file whose rewrite was cut short: json.load raises
\* JSONDecodeError on it.
Corrupt == [text |-> "truncated"]

Parseable(doc) == doc # Corrupt

JsonLoad(doc) ==
    [schema |-> JsonLoadDict(doc.schema),
     pk_col |-> JsonLoadValue(doc.pk_col).s,
     rows   |-> [i \in DOMAIN doc.rows |-> JsonLoadDict(doc.rows[i])]]

----------------------------------------------------------------------------
(* Table *)

EmptyIndex == [k \in {} |-> 0]

RECURSIVE IndexLoop(_, _, _, _)
IndexLoop(rows, pk_col, idx, index) ==
    IF idx >= Len(rows) THEN index
    ELSE LET key == Str(DictGet(rows[idx + 1], pk_col))
         IN IndexLoop(rows, pk_col, idx + 1,
                      [k \in DOMAIN index \cup {key} |->
                          IF k = key THEN idx ELSE index[k]])

rebuild_index(t) == [t EXCEPT !.index = IndexLoop(t.rows, t.pk_col, 0, EmptyIndex)]

load(t, fs) ==
    IF t.name \in DOMAIN fs
    THEN IF Parseable(fs[t.name])
         THEN rebuild_index([t EXCEPT !.rows = JsonLoad(fs[t.name]).rows])
         ELSE t
    ELSE t

TableInit(name, schema, pk_col, fs) ==
    load([name |-> name, schema |-> schema, pk_col |-> pk_col,
          rows |-> <<>>, index |-> EmptyIndex], fs)

save(t, fs) ==
    LET doc == [schema |-> JsonDumpDict(t.schema),
                pk_col |-> JsonDumpValue(PyStr(t.pk_col)),
                rows   |-> [i \in DOMAIN t.rows |-> JsonDumpDict(t.rows[i])]]
    IN [n \in DOMAIN fs \cup {t.name} |-> IF n = t.name THEN doc ELSE fs[n]]

\* Mutant: only the extra-column check.
validate_schema_extra_only(t, row_dict) ==
    IF \E i \in DOMAIN row_dict : ~DictHas(t.schema, row_dict[i][1])
    THEN "ColumnNotInSchema"
    ELSE ""

validate_schema(t, row_dict) ==
    IF \E i \in DOMAIN row_dict : ~DictHas(t.schema, row_dict[i][1])
    THEN "ColumnNotInSchema"
    ELSE IF \E i \in DOMAIN t.schema : ~DictHas(row_dict, t.schema[i][1])
    THEN "MissingColumn"
    ELSE ""

\* Mutant: the duplicate check looks the raw value up, not its str().
insert_raw_key(t, row_dict, fs) ==
    LET verr == validate_schema(t, row_dict) IN
    IF verr # "" THEN [err |-> verr, t |-> t, fs |-> fs]
    ELSE IF ~DictHas(row_dict, t.pk_col) THEN [err |-> "KeyError", t |-> t, fs |-> fs]
    ELSE LET raw == DictItem(row_dict, t.pk_col)
             pk_val == Str(raw) IN
         IF raw.t = "str" /\ pk_val \in DOMAIN t.index
         THEN [err |-> "DuplicateKey", t |-> t, fs |-> fs]
         ELSE LET rows2 == Append(t.rows, row_dict)
                  t2 == [t EXCEPT !.rows = rows2,
                                  !.index = [k \in DOMAIN t.index \cup {pk_val} |->
                                      IF k = pk_val THEN Len(rows2) - 1 ELSE t.index[k]]]
              IN [err |-> "", t |-> t2, fs |-> save(t2, fs)]

\* The outcome of Table.insert: the error raised ("" for none), the table and
\* the files afterwards.
insert(t, row_dict, fs) ==
    LET verr == validate_schema(t, row_dict) IN
    IF verr # "" THEN [err |-> verr, t |-> t, fs |-> fs]
    ELSE IF ~DictHas(row_dict, t.pk_col) THEN [err |-> "KeyError", t |-> t, fs |-> fs]
    ELSE LET pk_val == Str(DictItem(row_dict, t.pk_col)) IN
         IF pk_val \in DOMAIN t.index
         THEN [err |-> "DuplicateKey", t |-> t, fs |-> fs]
         ELSE LET rows2 == Append(t.rows, row_dict)
                  t2 == [t EXCEPT !.rows = rows2,
                                  !.index = [k \in DOMAIN t.index \cup {pk_val} |->
                                      IF k = pk_val THEN Len(rows2) - 1 ELSE t.index[k]]]
              IN [err |-> "", t |-> t2, fs |-> save(t2, fs)]

\* The rows Table.select returns.
select(t, where_col, where_val) ==
    IF where_col = "" THEN t.rows
    ELSE IF where_col = t.pk_col
    THEN IF Str(where_val) \in DOMAIN t.index
         THEN <<t.rows[t.index[Str(where_val)] + 1]>>
         ELSE <<>>
    ELSE SelectSeq(t.rows, LAMBDA row : Str(DictGet(row, where_col)) = Str(where_val))

\* Mutant: the rows are filtered but the index is not rebuilt.
delete_no_rebuild(t, pk_val, fs) ==
    LET pk_str == Str(pk_val) IN
    IF pk_str \notin DOMAIN t.index
    THEN [err |-> "KeyNotFound", t |-> t, fs |-> fs]
    ELSE IF \E i \in DOMAIN t.rows : ~DictHas(t.rows[i], t.pk_col)
    THEN [err |-> "KeyError", t |-> t, fs |-> fs]
    ELSE LET t2 == [t EXCEPT !.rows =
                      SelectSeq(t.rows, LAMBDA row : Str(DictItem(row, t.pk_col)) # pk_str)]
         IN [err |-> "", t |-> t2, fs |-> save(t2, fs)]

\* Mutant: deleting a key that is not in the index succeeds without effect.
delete_silent(t, pk_val, fs) ==
    LET pk_str == Str(pk_val) IN
    IF pk_str \notin DOMAIN t.index
    THEN [err |-> "", t |-> t, fs |-> fs]
    ELSE IF \E i \in DOMAIN t.rows : ~DictHas(t.rows[i], t.pk_col)
    THEN [err |-> "KeyError", t |-> t, fs |-> fs]
    ELSE LET t2 == rebuild_index([t EXCEPT !.rows =
                      SelectSeq(t.rows, LAMBDA row : Str(DictItem(row, t.pk_col)) # pk_str)])
         IN [err |-> "", t |-> t2, fs |-> save(t2, fs)]

\* The outcome of Table.delete.
delete(t, pk_val, fs) ==
    LET pk_str == Str(pk_val) IN
    IF pk_str \notin DOMAIN t.index
    THEN [err |-> "KeyNotFound", t |-> t, fs |-> fs]
    ELSE IF \E i \in DOMAIN t.rows : ~DictHas(t.rows[i], t.pk_col)
    THEN [err |-> "KeyError", t |-> t, fs |-> fs]
    ELSE LET t2 == rebuild_index([t EXCEPT !.rows =
                      SelectSeq(t.rows, LAMBDA row : Str(DictItem(row, t.pk_col)) # pk_str)])
         IN [err |-> "", t |-> t2, fs |-> save(t2, fs)]

\* Table.save when the write may fail: io = "ok" writes the file; "oserror"
\* raises before the file is opened for writing (makedirs or open fails);
\* "truncated" raises after open(..., 'w') has emptied the file.
save_io(t, fs, io) ==
    CASE io = "ok" -> [err |-> "", fs |-> save(t, fs)]
      [] io = "oserror" -> [err |-> "OSError", fs |-> fs]
      [] io = "truncated" ->
            [err |-> "OSError",
             fs |-> [n \in DOMAIN fs \cup {t.name} |-> IF n = t.name THEN Corrupt ELSE fs[n]]]

\* Mutant: rows and index are restored when save raises.
insert_io_rollback(t, row_dict, fs, io) ==
    LET r == insert(t, row_dict, fs) IN
    IF r.err # "" \/ io = "ok" THEN r
    ELSE [err |-> "OSError", t |-> t, fs |-> save_io(r.t, fs, io).fs]

\* Table.insert when save may fail.
insert_io(t, row_dict, fs, io) ==
    LET verr == validate_schema(t, row_dict) IN
    IF verr # "" THEN [err |-> verr, t |-> t, fs |-> fs]
    ELSE IF ~DictHas(row_dict, t.pk_col) THEN [err |-> "KeyError", t |-> t, fs |-> fs]
    ELSE LET pk_val == Str(DictItem(row_dict, t.pk_col)) IN
         IF pk_val \in DOMAIN t.index
         THEN [err |-> "DuplicateKey", t |-> t, fs |-> fs]
         ELSE LET rows2 == Append(t.rows, row_dict)
                  t2 == [t EXCEPT !.rows = rows2,
                                  !.index = [k \in DOMAIN t.index \cup {pk_val} |->
                                      IF k = pk_val THEN Len(rows2) - 1 ELSE t.index[k]]]
                  w == save_io(t2, fs, io)
              IN [err |-> w.err, t |-> t2, fs |-> w.fs]

\* Table.delete when save may fail.
delete_io(t, pk_val, fs, io) ==
    LET pk_str == Str(pk_val) IN
    IF pk_str \notin DOMAIN t.index
    THEN [err |-> "KeyNotFound", t |-> t, fs |-> fs]
    ELSE IF \E i \in DOMAIN t.rows : ~DictHas(t.rows[i], t.pk_col)
    THEN [err |-> "KeyError", t |-> t, fs |-> fs]
    ELSE LET t2 == rebuild_index([t EXCEPT !.rows =
                      SelectSeq(t.rows, LAMBDA row : Str(DictItem(row, t.pk_col)) # pk_str)])
             w == save_io(t2, fs, io)
         IN [err |-> w.err, t |-> t2, fs |-> w.fs]

----------------------------------------------------------------------------
(* Database *)

NoTables == [n \in {} |-> 0]

\* The outcome of Database.create_table: the error raised, the catalog
\* afterwards and the kind of value returned.
create_table(tbls, name, schema, pk_col, fs) ==
    IF name \in DOMAIN tbls
    THEN [err |-> "TableExists", tables |-> tbls, ret |-> "none"]
    ELSE [err |-> "",
          tables |-> [n \in DOMAIN tbls \cup {name} |->
                         IF n = name THEN TableInit(name, schema, pk_col, fs) ELSE tbls[n]],
          ret |-> "str"]

\* The outcome of Database.get_table; ret = "Table" stands for the instance
\* registered under the name, ret = "str" for the message create_table returns.
get_table(tbls, name, fs) ==
    IF name \notin DOMAIN tbls
    THEN IF name \in DOMAIN fs
         THEN IF Parseable(fs[name])
              THEN LET meta == JsonLoad(fs[name])
                   IN create_table(tbls, name, meta.schema, meta.pk_col, fs)
              ELSE [err |-> "JSONDecodeError", tables |-> tbls, ret |-> "none"]
         ELSE [err |-> "TableNotFound", tables |-> tbls, ret |-> "none"]
    ELSE [err |-> "", tables |-> tbls, ret |-> "Table"]

----------------------------------------------------------------------------
(* Inputs of the calls *)

Schema(cols) == [i \in DOMAIN cols |-> <<cols[i], PyStr("str")>>]

CreateArgs ==
    { <<Schema(<<"id", "name">>), "id">>,
      <<Schema(<<"name", "id">>), "name">>,
      <<Schema(<<"id">>), "id">>,
      <<Schema(<<"id", "name">>), "zz">> }

IdValues == {PyInt(1), PyStr("1"), PyStr("2"), PyStr("3")}

NameValues == {PyStr("a"), None}

RowArgs ==
    { <<<<"id", i>>, <<"name", v>>>> : i \in IdValues, v \in NameValues }
    \cup { <<<<"name", PyStr("a")>>, <<"id", PyStr("2")>>>>,
           <<<<"id", PyStr("1")>>>>,
           <<<<"name", PyStr("a")>>>>,
           <<<<"id", PyStr("2")>>, <<"name", PyStr("a")>>, <<"zz", PyStr("a")>>>> }

KeyArgs == {PyInt(1), PyStr("2"), PyStr("3"), PyStr("a"), PyStr("None")}

ColArgs == {"id", "name", "zz"}

----------------------------------------------------------------------------
(* The calls *)

NoCall ==
    [op |-> "none", name |-> "", row |-> <<>>, col |-> "", val |-> None,
     err |-> "", ret |-> "none", rows |-> <<>>]

\* No command loop and no request thread is running.
NoRepl == [session |-> "off", script |-> <<>>, ip |-> 0]

NoThreads == [i \in {} |-> 0]

Init ==
    /\ tables = NoTables
    /\ files = NoTables
    /\ fresh = {}
    /\ res = NoCall
    /\ repl = NoRepl
    /\ thr = NoThreads

\* Mutant: the new table is written to disk as soon as it is constructed.
CreateTable_saves(name, schema, pk_col) ==
    LET r == create_table(tables, name, schema, pk_col, files) IN
    /\ tables' = r.tables
    /\ fresh' = IF r.err = "" /\ name \notin DOMAIN files THEN fresh \cup {name} ELSE fresh
    /\ res' = [NoCall EXCEPT !.op = "create_table", !.name = name, !.row = schema,
                             !.col = pk_col, !.err = r.err, !.ret = r.ret]
    /\ files' = IF r.err = "" THEN save(r.tables[name], files) ELSE files
    /\ UNCHANGED <<repl, thr>>

CreateTable(name, schema, pk_col) ==
    LET r == create_table(tables, name, schema, pk_col, files) IN
    /\ tables' = r.tables
    /\ fresh' = IF r.err = "" /\ name \notin DOMAIN files THEN fresh \cup {name} ELSE fresh
    /\ res' = [NoCall EXCEPT !.op = "create_table", !.name = name, !.row = schema,
                             !.col = pk_col, !.err = r.err, !.ret = r.ret]
    /\ UNCHANGED <<files, repl, thr>>

GetTable(name) ==
    LET r == get_table(tables, name, files) IN
    /\ tables' = r.tables
    /\ res' = [NoCall EXCEPT !.op = "get_table", !.name = name,
                             !.err = r.err, !.ret = r.ret]
    /\ UNCHANGED <<files, fresh, repl, thr>>

Insert(name, row_dict) ==
    /\ name \in DOMAIN tables
    /\ LET r == insert(tables[name], row_dict, files) IN
       /\ r.err = "" => Len(tables[name].rows) < MaxRows
       /\ tables' = [tables EXCEPT ![name] = r.t]
       /\ files' = r.fs
       /\ res' = [NoCall EXCEPT !.op = "insert", !.name = name, !.row = row_dict,
                                !.err = r.err, !.ret = IF r.err = "" THEN "str" ELSE "none"]
    /\ UNCHANGED <<fresh, repl, thr>>

Select(name, where_col, where_val) ==
    /\ name \in DOMAIN tables
    /\ res' = [NoCall EXCEPT !.op = "select", !.name = name, !.col = where_col,
                             !.val = where_val, !.ret = "rows",
                             !.rows = select(tables[name], where_col, where_val)]
    /\ UNCHANGED <<tables, files, fresh, repl, thr>>

Delete(name, pk_val) ==
    /\ name \in DOMAIN tables
    /\ LET r == delete(tables[name], pk_val, files) IN
       /\ tables' = [tables EXCEPT ![name] = r.t]
       /\ files' = r.fs
       /\ res' = [NoCall EXCEPT !.op = "delete", !.name = name, !.val = pk_val,
                                !.err = r.err, !.ret = IF r.err = "" THEN "str" ELSE "none"]
    /\ UNCHANGED <<fresh, repl, thr>>

\* The process ends and a new one starts: a new Database over the same files.
Restart ==
    /\ tables # NoTables
    /\ tables' = NoTables
    /\ fresh' = {}
    /\ res' = [NoCall EXCEPT !.op = "restart"]
    /\ UNCHANGED <<files, repl, thr>>

Next ==
    \/ \E name \in Names, a \in CreateArgs : CreateTable(name, a[1], a[2])
    \/ \E name \in Names : GetTable(name)
    \/ \E name \in Names, row_dict \in RowArgs : Insert(name, row_dict)
    \/ \E name \in Names : Select(name, "", None)
    \/ \E name \in Names, c \in ColArgs, v \in KeyArgs : Select(name, c, v)
    \/ \E name \in Names, v \in KeyArgs : Delete(name, v)
    \/ Restart

Spec == Init /\ [][Next]_vars

----------------------------------------------------------------------------
(* The engine when a save may raise *)

SaveOutcomes == {"ok", "oserror", "truncated"}

FaultCreateArgs ==
    { <<Schema(<<"id", "name">>), "id">>, <<Schema(<<"name", "id">>), "name">> }

FaultRowArgs ==
    { <<<<"id", PyStr("1")>>, <<"name", PyStr("a")>>>>,
      <<<<"id", PyStr("2")>>, <<"name", PyStr("a")>>>>,
      <<<<"id", PyInt(1)>>, <<"name", None>>>> }

FaultKeyArgs == {PyInt(1), PyStr("2"), PyStr("a")}

InsertIO(name, row_dict, io) ==
    /\ name \in DOMAIN tables
    /\ LET r == insert_io(tables[name], row_dict, files, io) IN
       /\ r.err \in {"", "OSError"} => Len(tables[name].rows) < MaxRows
       /\ tables' = [tables EXCEPT ![name] = r.t]
       /\ files' = r.fs
       /\ res' = [NoCall EXCEPT !.op = "insert", !.name = name, !.row = row_dict,
                                !.err = r.err, !.ret = IF r.err = "" THEN "str" ELSE "none"]
    /\ UNCHANGED <<fresh, repl, thr>>

DeleteIO(name, pk_val, io) ==
    /\ name \in DOMAIN tables
    /\ LET r == delete_io(tables[name], pk_val, files, io) IN
       /\ tables' = [tables EXCEPT ![name] = r.t]
       /\ files' = r.fs
       /\ res' = [NoCall EXCEPT !.op = "delete", !.name = name, !.val = pk_val,
                                !.err = r.err, !.ret = IF r.err = "" THEN "str" ELSE "none"]
    /\ UNCHANGED <<fresh, repl, thr>>

NextFault ==
    \/ \E name \in Names, a \in FaultCreateArgs : CreateTable(name, a[1], a[2])
    \/ \E name \in Names : GetTable(name)
    \/ \E name \in Names, row_dict \in FaultRowArgs, io \in SaveOutcomes :
          InsertIO(name, row_dict, io)
    \/ \E name \in Names, v \in FaultKeyArgs, io \in SaveOutcomes : DeleteIO(name, v, io)
    \/ \E name \in Names : Select(name, "", None)
    \/ Restart

SpecFault == Init /\ [][NextFault]_vars

----------------------------------------------------------------------------
(* The engine and a caller that keeps what select() returned *)

ViewOps == {"append", "pop", "reverse"}

\* list.append, list.pop and list.reverse on the list the caller was given
list_op(rows, m, x) ==
    CASE m = "append" -> Append(rows, x)
      [] m = "pop" -> SubSeq(rows, 1, Len(rows) - 1)
      [] m = "reverse" -> [i \in 1..Len(rows) |-> rows[Len(rows) + 1 - i]]

\* select() without a filter returned self.rows itself, so what the caller
\* does to that list is done to the table's rows; the index is not touched.
MutateView(name, m, x) ==
    /\ name \in DOMAIN tables
    /\ res.name = name
    /\ \/ res.op = "select" /\ res.col = ""
       \/ res.op = "mutate_view"
    /\ m = "append" => Len(tables[name].rows) < MaxRows
    /\ m = "pop" => tables[name].rows # <<>>
    /\ tables' = [tables EXCEPT ![name].rows = list_op(@, m, x)]
    /\ res' = [NoCall EXCEPT !.op = "mutate_view", !.name = name, !.col = m,
                             !.row = IF m = "append" THEN x ELSE <<>>,
                             !.ret = "rows", !.rows = list_op(tables[name].rows, m, x)]
    /\ UNCHANGED <<files, fresh, repl, thr>>

NextView ==
    \/ \E name \in Names, a \in FaultCreateArgs : CreateTable(name, a[1], a[2])
    \/ \E name \in Names, row_dict \in FaultRowArgs : Insert(name, row_dict)
    \/ \E name \in Names, v \in FaultKeyArgs : Delete(name, v)
    \/ \E name \in Names : Select(name, "", None)
    \/ \E name \in Names, m \in ViewOps, x \in FaultRowArgs : MutateView(name, m, x)

SpecView == Init /\ [][NextView]_vars

----------------------------------------------------------------------------
(* The command loop of repl.py *)

\* A line of input is a sequence of words; a word is plain, "quoted", or
\* opens a quotation that the line never closes.
Word(x) == [s |-> x, q |-> ""]
Quoted(x) == [s |-> x, q |-> "quoted"]
OpenQuote(x) == [s |-> x, q |-> "open"]

\* str.upper and str.lower on the words the loop compares
Upper(x) ==
    CASE x \in {"create", "CREATE"} -> "CREATE"
      [] x \in {"insert", "INSERT"} -> "INSERT"
      [] x \in {"select", "SELECT"} -> "SELECT"
      [] x \in {"delete", "DELETE"} -> "DELETE"
      [] x \in {"from", "FROM"} -> "FROM"
      [] x \in {"where", "WHERE"} -> "WHERE"
      [] OTHER -> x

Lower(x) ==
    CASE x \in {"exit", "EXIT"} -> "exit"
      [] x \in {"quit", "QUIT"} -> "quit"
      [] x \in {"help", "HELP"} -> "help"
      [] OTHER -> x

\* shlex.split: quotes are removed, an unclosed quotation raises ValueError
shlex_split(line) ==
    IF \E i \in DOMAIN line : line[i].q = "open"
    THEN [err |-> "ValueError", tokens |-> <<>>]
    ELSE [err |-> "", tokens |-> [i \in DOMAIN line |-> line[i].s]]

\* list.index: the 0-based position of the first occurrence
list_index(seq, x) == (CHOOSE i \in DOMAIN seq : seq[i] = x /\ \A j \in 1..(i - 1) : seq[j] # x) - 1

\* schema = {pk_col: "str"}; for col in columns: schema[col] = "str"
RECURSIVE schema_of(_, _)
schema_of(schema, columns) ==
    IF columns = <<>> THEN schema
    ELSE schema_of(IF DictHas(schema, Head(columns)) THEN schema
                   ELSE Append(schema, <<Head(columns), PyStr("str")>>),
                   Tail(columns))

\* dict(zip(table.schema.keys(), values))
zip_row(schema, values) ==
    [i \in 1..(IF Len(schema) < Len(values) THEN Len(schema) ELSE Len(values)) |->
        <<schema[i][1], PyStr(values[i])>>]

\* Mutant: the token after the column is taken as the value, "=" or not.
where_args_keep_eq(tokens, where_index) ==
    IF where_index + 2 >= Len(tokens)
    THEN [err |-> "IndexError", col |-> "", val |-> ""]
    ELSE [err |-> "", col |-> tokens[where_index + 2], val |-> tokens[where_index + 3]]

\* col = tokens[where_index + 1]; the "=" after it is skipped if typed
where_args(tokens, where_index) ==
    IF where_index + 2 >= Len(tokens)
    THEN [err |-> "IndexError", col |-> "", val |-> ""]
    ELSE LET val_index == IF tokens[where_index + 3] = "=" THEN where_index + 3
                          ELSE where_index + 2
         IN IF val_index >= Len(tokens)
            THEN [err |-> "IndexError", col |-> "", val |-> ""]
            ELSE [err |-> "", col |-> tokens[where_index + 2], val |-> tokens[val_index + 1]]

ReplOut(tbls, fs, err, msg, rows) ==
    [session |-> "running", tables |-> tbls, fs |-> fs, err |-> err, msg |-> msg,
     rows |-> rows]

\* The first use of what get_table returned (g): the str that the lazy load
\* returns has no schema, select or delete attribute.
table_of(g) ==
    IF g.err # "" THEN g
    ELSE IF g.ret = "str" THEN [g EXCEPT !.err = "AttributeError"]
    ELSE g

\* table = db.get_table(name) followed by the first use of table
repl_table(tbls, name, fs) == table_of(get_table(tbls, name, fs))

\* print(...) of what an engine call (r) returned, or its exception
repl_print(tbls, name, r, msg) ==
    ReplOut([tbls EXCEPT ![name] = r.t], r.fs, r.err, IF r.err = "" THEN msg ELSE "", <<>>)

\* CREATE TABLE <name> <pk_col> <col1> <col2> ...
repl_create_table(c, fs) ==
    ReplOut(c.tables, fs, c.err, IF c.err = "" THEN "created" ELSE "", <<>>)

repl_create(tbls, fs, tokens) ==
    IF Len(tokens) < 4 THEN ReplOut(tbls, fs, "", "usage", <<>>)
    ELSE repl_create_table(
             create_table(tbls, tokens[3],
                          schema_of(<<<<tokens[4], PyStr("str")>>>>,
                                    SubSeq(tokens, 5, Len(tokens))),
                          tokens[4], fs),
             fs)

\* INSERT INTO <name> <val1> <val2> ...
repl_insert_values(g, fs, name, values) ==
    IF g.err # "" THEN ReplOut(g.tables, fs, g.err, "", <<>>)
    ELSE IF Len(values) # Len(g.tables[name].schema)
    THEN ReplOut(g.tables, fs, "", "count_mismatch", <<>>)
    ELSE repl_print(g.tables, name,
                    insert(g.tables[name], zip_row(g.tables[name].schema, values), fs),
                    "inserted")

repl_insert(tbls, fs, tokens) ==
    IF Len(tokens) < 4 THEN ReplOut(tbls, fs, "", "usage", <<>>)
    ELSE repl_insert_values(repl_table(tbls, tokens[3], fs), fs, tokens[3],
                            SubSeq(tokens, 4, Len(tokens)))

\* SELECT * FROM <name> [WHERE <col> = <val>]
repl_select_where(g, fs, name, w) ==
    IF w.err # "" THEN ReplOut(g.tables, fs, w.err, "", <<>>)
    ELSE IF g.ret = "str" THEN ReplOut(g.tables, fs, "AttributeError", "", <<>>)
    ELSE ReplOut(g.tables, fs, "", "found", select(g.tables[name], w.col, PyStr(w.val)))

repl_select_from(g, fs, name, tokens, upper) ==
    IF g.err # "" THEN ReplOut(g.tables, fs, g.err, "", <<>>)
    ELSE IF \E i \in DOMAIN upper : upper[i] = "WHERE"
    THEN repl_select_where(g, fs, name, where_args(tokens, list_index(upper, "WHERE")))
    ELSE IF g.ret = "str" THEN ReplOut(g.tables, fs, "AttributeError", "", <<>>)
    ELSE ReplOut(g.tables, fs, "", "found", select(g.tables[name], "", None))

repl_select_tokens(tbls, fs, tokens, upper) ==
    IF \A i \in DOMAIN upper : upper[i] # "FROM"
    THEN ReplOut(tbls, fs, "", "syntax", <<>>)
    ELSE IF list_index(upper, "FROM") + 1 >= Len(tokens)
    THEN ReplOut(tbls, fs, "IndexError", "", <<>>)
    ELSE repl_select_from(get_table(tbls, tokens[list_index(upper, "FROM") + 2], fs), fs,
                          tokens[list_index(upper, "FROM") + 2], tokens, upper)

repl_select(tbls, fs, tokens) ==
    repl_select_tokens(tbls, fs, tokens, [i \in DOMAIN tokens |-> Upper(tokens[i])])

\* DELETE FROM <table> <pk_value>
repl_delete_key(g, fs, name, pk_val) ==
    IF g.err # "" THEN ReplOut(g.tables, fs, g.err, "", <<>>)
    ELSE repl_print(g.tables, name, delete(g.tables[name], PyStr(pk_val), fs), "deleted")

repl_delete(tbls, fs, tokens) ==
    IF Len(tokens) < 4 THEN ReplOut(tbls, fs, "", "usage", <<>>)
    ELSE repl_delete_key(repl_table(tbls, tokens[3], fs), fs, tokens[3], tokens[4])

\* command = tokens[0].upper() and the branch it selects
repl_execute(tbls, fs, tokens, command) ==
    CASE command = "CREATE" -> repl_create(tbls, fs, tokens)
      [] command = "INSERT" -> repl_insert(tbls, fs, tokens)
      [] command = "SELECT" -> repl_select(tbls, fs, tokens)
      [] command = "DELETE" -> repl_delete(tbls, fs, tokens)
      [] OTHER -> ReplOut(tbls, fs, "", "unknown_command", <<>>)

repl_parse(tbls, fs, sp) ==
    IF sp.err # "" THEN ReplOut(tbls, fs, sp.err, "", <<>>)
    ELSE repl_execute(tbls, fs, sp.tokens, Upper(sp.tokens[1]))

\* The body of the try: one line read, parsed and executed.  err is the
\* exception that leaves the body, msg the kind of message printed in it.
repl_command(tbls, fs, line) ==
    IF line = <<>> THEN ReplOut(tbls, fs, "", "", <<>>)
    ELSE IF Len(line) = 1 /\ line[1].q = "" /\ Lower(line[1].s) \in {"exit", "quit"}
    THEN [ReplOut(tbls, fs, "", "goodbye", <<>>) EXCEPT !.session = "ended"]
    ELSE IF Len(line) = 1 /\ line[1].q = "" /\ Lower(line[1].s) = "help"
    THEN ReplOut(tbls, fs, "", "help", <<>>)
    ELSE repl_parse(tbls, fs, shlex_split(line))

\* Mutant: no except clause, an exception ends the loop.
except_exception_none(o) == IF o.err # "" THEN [o EXCEPT !.session = "ended"] ELSE o

\* except Exception as e: print(f"System Error: {e}"), and the loop goes on
except_exception(o) == IF o.err # "" THEN [o EXCEPT !.msg = "system_error"] ELSE o

\* One pass of the while loop: input() raises EOFError when the input has
\* ended, and any exception of the body reaches the except clause.
repl_iteration(tbls, fs, script, ip) ==
    IF ip >= Len(script)
    THEN except_exception(ReplOut(tbls, fs, "EOFError", "", <<>>))
    ELSE except_exception(repl_command(tbls, fs, script[ip + 1]))

\* What one pass leaves: the catalog, the files, the session and the output
repl_state(o, tbls, fs, known, r, last) ==
    [tables |-> o.tables,
     files |-> o.fs,
     fresh |-> known \cup {n \in DOMAIN o.tables \ DOMAIN tbls : n \notin DOMAIN fs},
     repl |-> [r EXCEPT !.session = o.session,
                        !.ip = IF r.ip >= Len(r.script) THEN @ ELSE @ + 1],
     res |-> [last EXCEPT !.op = "repl", !.err = o.err, !.ret = o.msg, !.rows = o.rows]]

ReplStep ==
    /\ repl.session = "running"
    /\ LET s == repl_state(repl_iteration(tables, files, repl.script, repl.ip),
                           tables, files, fresh, repl, NoCall)
       IN /\ tables' = s.tables
          /\ files' = s.files
          /\ fresh' = s.fresh
          /\ repl' = s.repl
          /\ res' = s.res
    /\ UNCHANGED thr

Words(xs) == [i \in DOMAIN xs |-> Word(xs[i])]

LineCreate == Words(<<"CREATE", "TABLE", "students", "id", "name", "course">>)
LineInsert ==
    Words(<<"INSERT", "INTO", "students", "1">>) \o <<Quoted("Ann"), Quoted("CS")>>
LineSelectWhere == Words(<<"SELECT", "*", "FROM", "students", "WHERE", "id", "=", "1">>)
LineDelete == Words(<<"DELETE", "FROM", "students", "1">>)
LineSelect == Words(<<"select", "*", "from", "students">>)

\* The session of the spec's scenario
Scenario == <<LineCreate, LineInsert, LineSelectWhere, LineDelete, LineSelect>>

Lines ==
    { LineCreate, LineInsert, LineSelectWhere, LineDelete, LineSelect,
      Words(<<"exit">>),
      Words(<<"FOO", "students">>),
      Words(<<"INSERT", "INTO", "students", "1">>) \o <<OpenQuote("Ann")>>,
      Words(<<"INSERT", "INTO", "students", "2", "Bob">>),
      Words(<<"SELECT", "*", "FROM">>),
      Words(<<"SELECT", "*", "FROM", "students", "WHERE", "course", "CS">>),
      <<>> }

Scripts == {Scenario} \cup UNION {[1..k -> Lines] : k \in 0..MaxScript}

AnnRow == <<<<"id", PyStr("1")>>, <<"name", PyStr("Ann")>>, <<"course", PyStr("CS")>>>>

\* data/ as an earlier session may have left it: empty, or students.json
\* written by CREATE TABLE students id name course and the insert of Ann.
ReplFiles ==
    { NoTables,
      insert(TableInit("students", Schema(<<"id", "name", "course">>), "id", NoTables),
             AnnRow, NoTables).fs }

InitRepl ==
    /\ tables = NoTables
    /\ files \in ReplFiles
    /\ fresh = {}
    /\ res = NoCall
    /\ repl \in {[session |-> "running", script |-> sc, ip |-> 0] : sc \in Scripts}
    /\ thr = NoThreads

NextRepl == ReplStep

SpecRepl == InitRepl /\ [][NextRepl]_vars

----------------------------------------------------------------------------
(* The web application: request threads that share the one employees Table.
   Table.insert holds no lock, so a thread switch can fall between its
   duplicate check, the append, the index update and the save. *)

Workers == 1..MaxWorkers

EmployeeSchema == Schema(<<"id", "name", "role">>)

\* {"id": id_val, "name": name_val, "role": role_val} of the posted form
FormRows ==
    { <<<<"id", i>>, <<"name", n>>, <<"role", PyStr("dev")>>>> :
         i \in {PyStr("1"), PyStr("2")}, n \in {PyStr("a"), PyStr("b")} }

IdleThread == [pc |-> "idle", row |-> <<>>, pk_val |-> "", overlap |-> FALSE]

\* validate_schema, pk_val = str(row_dict[pk_col]) and the duplicate check
insert_check(t, row_dict) ==
    LET verr == validate_schema(t, row_dict) IN
    IF verr # "" THEN [err |-> verr, pk_val |-> ""]
    ELSE IF ~DictHas(row_dict, t.pk_col) THEN [err |-> "KeyError", pk_val |-> ""]
    ELSE LET pk_val == Str(DictItem(row_dict, t.pk_col)) IN
         IF pk_val \in DOMAIN t.index
         THEN [err |-> "DuplicateKey", pk_val |-> pk_val]
         ELSE [err |-> "", pk_val |-> pk_val]

\* self.rows.append(row_dict)
insert_append(t, row_dict) == [t EXCEPT !.rows = Append(t.rows, row_dict)]

\* Mutant: the index is given the length, not the last position.
insert_index_len(t, pk_val) ==
    [t EXCEPT !.index = [k \in DOMAIN t.index \cup {pk_val} |->
                            IF k = pk_val THEN Len(t.rows) ELSE t.index[k]]]

\* self.index[pk_val] = len(self.rows) - 1
insert_index(t, pk_val) ==
    [t EXCEPT !.index = [k \in DOMAIN t.index \cup {pk_val} |->
                            IF k = pk_val THEN Len(t.rows) - 1 ELSE t.index[k]]]

\* A call of insert that has passed the duplicate check and not yet returned
InFlight(i) == thr[i].pc \in {"append", "index", "save"}

\* db = Database(); db.create_table("employees", ...) with an empty data/
InitWeb ==
    /\ tables = create_table(NoTables, "employees", EmployeeSchema, "id", NoTables).tables
    /\ files = NoTables
    /\ fresh = {"employees"}
    /\ res = NoCall
    /\ repl = NoRepl
    /\ thr = [i \in Workers |-> IdleThread]

\* POST /add: the handler builds the row and calls table.insert
AddEntry(i, row) ==
    /\ thr[i].pc = "idle"
    /\ get_table(tables, "employees", files).ret = "Table"
    /\ thr' = [thr EXCEPT ![i].pc = "check", ![i].row = row]
    /\ UNCHANGED <<tables, files, fresh, res, repl>>

\* overlap records that another call was in flight when this one passed the
\* check; a rejected call makes the handler return the error page.
InsertCheck(i) ==
    /\ thr[i].pc = "check"
    /\ LET c == insert_check(tables["employees"], thr[i].row)
           met == {j \in Workers \ {i} : InFlight(j)}
       IN thr' = [j \in Workers |->
                    IF j = i
                    THEN [thr[i] EXCEPT !.pc = IF c.err = "" THEN "append" ELSE "error",
                                        !.pk_val = c.pk_val,
                                        !.overlap = c.err = "" /\ met # {}]
                    ELSE IF c.err = "" /\ j \in met
                    THEN [thr[j] EXCEPT !.overlap = TRUE]
                    ELSE thr[j]]
    /\ UNCHANGED <<tables, files, fresh, res, repl>>

InsertAppend(i) ==
    /\ thr[i].pc = "append"
    /\ tables' = [tables EXCEPT !["employees"] = insert_append(@, thr[i].row)]
    /\ thr' = [thr EXCEPT ![i].pc = "index"]
    /\ UNCHANGED <<files, fresh, res, repl>>

InsertIndex(i) ==
    /\ thr[i].pc = "index"
    /\ tables' = [tables EXCEPT !["employees"] = insert_index(@, thr[i].pk_val)]
    /\ thr' = [thr EXCEPT ![i].pc = "save"]
    /\ UNCHANGED <<files, fresh, res, repl>>

InsertSave(i) ==
    /\ thr[i].pc = "save"
    /\ files' = save(tables["employees"], files)
    /\ thr' = [thr EXCEPT ![i].pc = "done"]
    /\ UNCHANGED <<tables, fresh, res, repl>>

NextWeb ==
    \/ \E i \in Workers, row \in FormRows : AddEntry(i, row)
    \/ \E i \in Workers : InsertCheck(i)
    \/ \E i \in Workers : InsertAppend(i)
    \/ \E i \in Workers : InsertIndex(i)
    \/ \E i \in Workers : InsertSave(i)

SpecWeb == InitWeb /\ [][NextWeb]_vars

----------------------------------------------------------------------------
(* Properties *)

\* str(row[pk_col]) of the rows that have the primary-key column
HasKey(t, row, k) == DictHas(row, t.pk_col) /\ Str(DictItem(row, t.pk_col)) = k

IndexConsistent(t) ==
    /\ \A i \in 1..Len(t.rows) :
          /\ DictHas(t.rows[i], t.pk_col)
          /\ Str(DictItem(t.rows[i], t.pk_col)) \in DOMAIN t.index
          /\ t.index[Str(DictItem(t.rows[i], t.pk_col))] = i - 1
    /\ \A k \in DOMAIN t.index : \E i \in 1..Len(t.rows) : HasKey(t, t.rows[i], k)

\* C1: for a table constructed while no persisted file existed, after any
\* sequence of insert and delete calls, successful or failing, every row at
\* position i has index[str(row[pk_col])] = i and the index has no other key.
C1_IndexConsistentFresh ==
    \A n \in fresh : n \in DOMAIN tables /\ IndexConsistent(tables[n])

C1_Witness ==
    /\ res.op = "delete" /\ res.err = ""
    /\ res.name \in fresh
    /\ Len(tables[res.name].rows) >= 1
    /\ tables[res.name].index # EmptyIndex

\* C2: in every reachable state of every Table, however it came into being,
\* no two rows have the same stringified primary-key value.
C2_UniquePrimaryKeys ==
    \A n \in DOMAIN tables :
        \A i, j \in 1..Len(tables[n].rows) :
            i # j => Str(DictGet(tables[n].rows[i], tables[n].pk_col))
                     # Str(DictGet(tables[n].rows[j], tables[n].pk_col))

\* C3: after every successful insert or delete the file holds the table's
\* current schema, primary-key column and rows, and the lazy load of that
\* file by a new Database reproduces them, rows in the same order.
C3_RoundTrip ==
    (res.op \in {"insert", "delete"} /\ res.err = "") =>
        LET t == tables[res.name]
            r == get_table(NoTables, res.name, files)
        IN /\ res.name \in DOMAIN files
           /\ JsonLoad(files[res.name]) =
                 [schema |-> t.schema, pk_col |-> t.pk_col, rows |-> t.rows]
           /\ r.err = ""
           /\ r.tables[res.name].schema = t.schema
           /\ r.tables[res.name].pk_col = t.pk_col
           /\ r.tables[res.name].rows = t.rows

C3_Witness ==
    /\ res.op = "insert" /\ res.err = ""
    /\ Len(tables[res.name].rows) >= 2
    /\ \E i \in 1..Len(tables[res.name].rows) :
          DictGet(tables[res.name].rows[i], "id") = PyInt(1)
    /\ \E i \in 1..Len(tables[res.name].rows) :
          DictGet(tables[res.name].rows[i], "name") = None

\* C4: get_table(name) returns the Table registered under the name whenever
\* the name is registered or has a persisted file, on the lazy-loading call
\* as on every later one; it fails with table-not-found, leaving the catalog
\* unchanged, only when there is neither a registration nor a file.
C4_GetTableReturnsTable ==
    [][res'.op = "get_table" =>
          IF res'.name \in DOMAIN tables \/ res'.name \in DOMAIN files
          THEN /\ res'.err = ""
               /\ res'.ret = "Table"
               /\ res'.name \in DOMAIN tables'
               /\ res'.name \in DOMAIN tables => tables' = tables
          ELSE res'.err = "TableNotFound" /\ tables' = tables]_vars

\* C5: insert of a schema-valid row whose stringified primary key equals that
\* of a row already in the table fails with a duplicate-key error and leaves
\* rows, index and file as they were.
C5_DuplicateInsertNoEffect ==
    [][(/\ res'.op = "insert"
        /\ validate_schema(tables[res'.name], res'.row) = ""
        /\ DictHas(res'.row, tables[res'.name].pk_col)
        /\ \E i \in 1..Len(tables[res'.name].rows) :
              HasKey(tables[res'.name], tables[res'.name].rows[i],
                     Str(DictItem(res'.row, tables[res'.name].pk_col))))
       => (res'.err = "DuplicateKey" /\ tables' = tables /\ files' = files)]_vars

C5_Witness ==
    /\ res.op = "insert" /\ res.err = "DuplicateKey"
    /\ DictGet(res.row, "id") = PyInt(1)
    /\ tables[res.name].pk_col = "id"
    /\ \E i \in 1..Len(tables[res.name].rows) :
          DictGet(tables[res.name].rows[i], "id") = PyStr("1")

\* C6: insert fails with a schema error, changing neither rows, index nor
\* file, exactly when the set of the row's column names differs from the set
\* of the schema's column names; the order of the row's columns is irrelevant.
C6_SchemaErrorIffColumnSetsDiffer ==
    [][res'.op = "insert" =>
          /\ (res'.err \in {"ColumnNotInSchema", "MissingColumn"})
                <=> (DictKeys(res'.row) # DictKeys(tables[res'.name].schema))
          /\ (res'.err \in {"ColumnNotInSchema", "MissingColumn"})
                => (tables' = tables /\ files' = files)]_vars

C6_Witness ==
    /\ res.op = "insert" /\ res.err = "MissingColumn"
    /\ Len(tables[res.name].rows) >= 1
    /\ \E i \in 1..Len(tables[res.name].rows) :
          /\ DictKeys(tables[res.name].rows[i]) = DictKeys(tables[res.name].schema)
          /\ tables[res.name].rows[i][1][1] # tables[res.name].schema[1][1]

RemoveAt(rows, i) == SubSeq(rows, 1, i - 1) \o SubSeq(rows, i + 1, Len(rows))

\* C7: in every reachable state, delete(k) for a key present in the index
\* removes exactly one row, the one whose stringified primary key is str(k),
\* keeps every other row in the same relative order, and afterwards select on
\* the primary key for k returns the empty sequence.
C7_DeleteRemovesExactlyOne ==
    [][(res'.op = "delete" /\ Str(res'.val) \in DOMAIN tables[res'.name].index) =>
          /\ res'.err = ""
          /\ \E i \in 1..Len(tables[res'.name].rows) :
                /\ HasKey(tables[res'.name], tables[res'.name].rows[i], Str(res'.val))
                /\ tables'[res'.name].rows = RemoveAt(tables[res'.name].rows, i)
          /\ select(tables'[res'.name], tables'[res'.name].pk_col, res'.val) = <<>>]_vars

\* C8: delete(k) for a key whose stringified value is not in the index fails
\* with a key-not-found error and leaves rows, index and file unchanged.
C8_DeleteMissingNoEffect ==
    [][(res'.op = "delete" /\ Str(res'.val) \notin DOMAIN tables[res'.name].index) =>
          (res'.err = "KeyNotFound" /\ tables' = tables /\ files' = files)]_vars

C8_Witness ==
    /\ res.op = "delete" /\ res.err = "KeyNotFound"
    /\ Len(tables[res.name].rows) >= 1
    /\ JsonLoad(files[res.name]).schema # tables[res.name].schema

\* C9: in every reachable state, select on the primary-key column returns
\* what a linear scan for the rows with str(row[pk_col]) = str(v) returns: one
\* row if one exists, the empty sequence otherwise.
C9_IndexSelectEqualsScan ==
    (res.op = "select" /\ res.col # "" /\ res.col = tables[res.name].pk_col) =>
        /\ res.rows = SelectSeq(tables[res.name].rows,
                LAMBDA row : Str(DictGet(row, res.col)) = Str(res.val))
        /\ Len(res.rows) <= 1

\* C10: select with a given where_column that is not in the schema returns
\* the empty sequence, for any table contents and any where_value.
C10_UnknownColumnSelectsNothing ==
    (res.op = "select" /\ res.col # "" /\ ~DictHas(tables[res.name].schema, res.col)) =>
        res.rows = <<>>

\* C11: whatever a caller does to the sequence select() without a filter
\* returned (append, remove, reorder), the table's rows stay as they were and
\* the index stays consistent with them.
C11_ViewCannotCorrupt ==
    [][res'.op = "mutate_view" =>
          /\ tables'[res'.name].rows = tables[res'.name].rows
          /\ IndexConsistent(tables[res'.name]) => IndexConsistent(tables'[res'.name])]_vars

\* C12: when a Table is constructed for a name whose file exists and is
\* parseable, load takes schema, primary-key column and rows from the file,
\* whatever the constructor was given, and the index maps the stringified
\* primary key of every loaded row to its position.
C12_LoadPopulatesFromFile ==
    [][(/\ res'.op \in {"create_table", "get_table"}
        /\ res'.name \notin DOMAIN tables
        /\ res'.name \in DOMAIN tables'
        /\ res'.name \in DOMAIN files
        /\ Parseable(files[res'.name]))
       => LET d == JsonLoad(files[res'.name])
              t == tables'[res'.name]
          IN /\ t.schema = d.schema
             /\ t.pk_col = d.pk_col
             /\ t.rows = d.rows
             /\ \A i \in 1..Len(t.rows) :
                   /\ Str(DictGet(t.rows[i], t.pk_col)) \in DOMAIN t.index
                   /\ t.index[Str(DictGet(t.rows[i], t.pk_col))] = i - 1]_vars

\* C14: create_table with a pk_col that is not a column of the schema fails
\* with a schema error and registers nothing, so the primary-key column of
\* every registered table is a column of its schema.
C14_PrimaryKeyInSchema ==
    [][/\ (res'.op = "create_table" /\ ~DictHas(res'.row, res'.col))
             => (res'.err = "SchemaError" /\ tables' = tables)
       /\ \A n \in DOMAIN tables' : DictHas(tables'[n].schema, tables'[n].pk_col)]_vars

\* C15: create_table never changes the files: none is created, an existing
\* one keeps its content and its rows are loaded into the new table; for a
\* name already registered it fails with table-exists and leaves the
\* registered table untouched.
C15_CreateLeavesDisk ==
    [][res'.op = "create_table" =>
          /\ files' = files
          /\ IF res'.name \in DOMAIN tables
             THEN res'.err = "TableExists" /\ tables' = tables
             ELSE /\ res'.err = ""
                  /\ res'.name \in DOMAIN tables'
                  /\ tables'[res'.name].rows =
                        IF res'.name \in DOMAIN files /\ Parseable(files[res'.name])
                        THEN JsonLoad(files[res'.name]).rows
                        ELSE <<>>]_vars

C15_Witness ==
    /\ res.op = "create_table" /\ res.err = ""
    /\ res.name \in DOMAIN files
    /\ Len(tables[res.name].rows) >= 2
    /\ JsonLoad(files[res.name]).schema # tables[res.name].schema

\* C13: a file that is present but not parseable makes the engine start the
\* table empty instead of raising, at create_table's self-load and at
\* get_table's lazy load of an unregistered name alike.
C13_CorruptFileStartsEmpty ==
    [][(/\ res'.op \in {"create_table", "get_table"}
        /\ res'.name \notin DOMAIN tables
        /\ res'.name \in DOMAIN files
        /\ ~Parseable(files[res'.name]))
       => /\ res'.err = ""
          /\ res'.name \in DOMAIN tables'
          /\ tables'[res'.name].rows = <<>>
          /\ tables'[res'.name].index = EmptyIndex]_vars

\* C19 as claimed: when save raises, insert or delete fails and rows and
\* index are as they were before the call.
C19_FailedSaveRestoresMemory ==
    [][(res'.op \in {"insert", "delete"} /\ res'.err = "OSError") => tables' = tables]_vars

\* C19 as amended: when save raises, insert or delete fails with that error
\* and the mutation stays in memory: a failed insert leaves the row at the end
\* of rows with its index entry added, a failed delete leaves the rows without
\* the deleted key and the index rebuilt; the file is as it was or truncated.
C19_FailedSaveKeepsMutation ==
    [][(res'.op \in {"insert", "delete"} /\ res'.err = "OSError") =>
          LET t == tables[res'.name]
              t2 == tables'[res'.name]
          IN /\ t2.rows # t.rows
             /\ res'.op = "insert" =>
                   /\ t2.rows = Append(t.rows, res'.row)
                   /\ t2.index = [k \in DOMAIN t.index \cup {Str(DictItem(res'.row, t.pk_col))} |->
                                     IF k = Str(DictItem(res'.row, t.pk_col))
                                     THEN Len(t.rows) ELSE t.index[k]]
             /\ res'.op = "delete" =>
                   /\ t2.rows = SelectSeq(t.rows,
                         LAMBDA row : Str(DictGet(row, t.pk_col)) # Str(res'.val))
                   /\ Str(res'.val) \notin DOMAIN t2.index
                   /\ t2.index = rebuild_index(t2).index
             /\ \/ files' = files
                \/ /\ res'.name \in DOMAIN files'
                   /\ files'[res'.name] = Corrupt
                   /\ \A n \in DOMAIN files : n # res'.name => files'[n] = files[n]]_vars

C19_Witness ==
    /\ res.op = "insert" /\ res.err = "OSError"
    /\ Len(tables[res.name].rows) >= 2
    /\ res.name \in DOMAIN files
    /\ Parseable(files[res.name])
    /\ JsonLoad(files[res.name]).rows # tables[res.name].rows

\* The line the last pass of the loop read (none when the input had ended)
LastLine == IF res.err = "EOFError" THEN <<>> ELSE repl.script[repl.ip]

IsExit(line) == Len(line) = 1 /\ line[1].q = "" /\ Lower(line[1].s) \in {"exit", "quit"}

\* C16: a command that fails never ends the session: the failure is reported
\* as a message, the engine state is as the engine call left it, and the loop
\* goes on with the next line; the loop ends only on exit or quit.
C16_FailureKeepsSession ==
    [][res'.op = "repl" =>
          /\ (repl'.session = "ended") <=>
                (repl.ip < Len(repl.script) /\ IsExit(repl.script[repl.ip + 1]))
          /\ (res'.err # "" \/ res'.ret \in {"usage", "count_mismatch", "syntax",
                                            "unknown_command", "system_error"}) =>
                /\ repl'.session = "running"
                /\ res'.ret \in {"usage", "count_mismatch", "syntax", "unknown_command",
                                 "system_error"}
                /\ res'.err # "" <=> res'.ret = "system_error"
                /\ files' = files
                /\ \/ tables' = tables
                   \/ /\ res'.err = "AttributeError"
                      /\ tables' = get_table(tables, "students", files).tables
          /\ repl.ip < Len(repl.script) => repl'.ip = repl.ip + 1]_vars

C16_Witness ==
    /\ repl.session = "running"
    /\ repl.ip = 2
    /\ repl.script[1] = LineDelete
    /\ repl.script[2] = LineCreate
    /\ res.op = "repl" /\ res.ret = "created"
    /\ "students" \in fresh

\* C17: with no students table and no file for it, CREATE TABLE students id
\* name course; INSERT INTO students 1 "Ann" "CS"; SELECT * FROM students
\* WHERE id = 1 finds exactly the row {id: "1", name: "Ann", course: "CS"},
\* and after DELETE FROM students 1 a SELECT * FROM students finds no row.
C17_Scenario ==
    (repl.script = Scenario /\ "students" \in fresh /\ res.err # "EOFError") =>
        /\ repl.ip = 2 => res.ret = "inserted"
        /\ repl.ip = 3 => (res.ret = "found" /\ res.rows = <<AnnRow>>)
        /\ repl.ip = 4 => res.ret = "deleted"
        /\ repl.ip = 5 => (res.ret = "found" /\ res.rows = <<>>)

C17_Witness ==
    /\ repl.script = Scenario /\ "students" \in fresh
    /\ repl.ip = 5
    /\ res.ret = "found" /\ res.rows = <<>>
    /\ tables["students"].schema = Schema(<<"id", "name", "course">>)

\* C20: once the input has ended without exit or quit, the loop stops instead
\* of reporting an error and reading again.
C20_EofStopsLoop ==
    [][(repl.session = "running" /\ repl.ip >= Len(repl.script)) =>
          repl'.session = "ended"]_vars

\* Every request has returned
Quiescent == \A i \in DOMAIN thr : thr[i].pc \in {"idle", "done", "error"}

Done == {i \in DOMAIN thr : thr[i].pc = "done"}

UniqueKeys(t) ==
    \A i, j \in 1..Len(t.rows) :
        (i # j /\ DictHas(t.rows[i], t.pk_col) /\ DictHas(t.rows[j], t.pk_col)) =>
            Str(DictItem(t.rows[i], t.pk_col)) # Str(DictItem(t.rows[j], t.pk_col))

\* C18: insert calls of concurrent /add requests on the one employees Table,
\* interleaved between duplicate check, append, index update and save, can
\* leave the triad corrupted.  Once every request has returned: rows holds the
\* row of each call that succeeded, the index has exactly the keys of the rows
\* and only positions inside rows, and the file holds the final rows; the
\* index maps every row's key to its position and the keys are unique if no
\* successful call overlapped another one.  C18_Witness is a corrupted state.
C18_InterleavedInserts ==
    (thr # NoThreads /\ Quiescent) =>
        LET t == tables["employees"] IN
        /\ Len(t.rows) = Cardinality(Done)
        /\ \A i \in Done : \E p \in 1..Len(t.rows) : t.rows[p] = thr[i].row
        /\ DOMAIN t.index = {Str(DictItem(t.rows[p], t.pk_col)) : p \in 1..Len(t.rows)}
        /\ \A k \in DOMAIN t.index : t.index[k] \in 0..(Len(t.rows) - 1)
        /\ Done # {} => files = save(t, files)
        /\ (\A i \in Done : ~thr[i].overlap) => (IndexConsistent(t) /\ UniqueKeys(t))

C18_Witness ==
    /\ thr # NoThreads /\ Quiescent
    /\ \E i, j \in Done : i # j /\ thr[i].pk_val = thr[j].pk_val
    /\ ~UniqueKeys(tables["employees"])
    /\ ~IndexConsistent(tables["employees"])
    /\ files = save(tables["employees"], files)

====
